---- MODULE Spec2Model ----
(***************************************************************************)
(* Model of twilight-rs/oauth2: the wire names of GrantType, Prompt and    *)
(* TokenType, their derived (de)serialization, the client credentials      *)
(* grant builder with the request it builds and the URL that request       *)
(* renders, and the decoding of the client credentials grant response.     *)
(*                                                                         *)
(* A Rust string is a sequence of one-character strings, so that           *)
(* concatenation, percent-encoding and case conversion work on characters. *)
(***************************************************************************)
EXTENDS Integers, Sequences, FiniteSets, TLC

(* ------------------------------------------------------------------ *)
(* Bounds                                                             *)
(* ------------------------------------------------------------------ *)

\* longest scope slice handed to scopes()
MaxScopes == 2

\* most build() calls recorded on one builder between two scopes() calls
MaxBuilt == 2

(* ------------------------------------------------------------------ *)
(* Characters                                                         *)
(* ------------------------------------------------------------------ *)

LowerSeq ==
    <<"a", "b", "c", "d", "e", "f", "g", "h", "i", "j", "k", "l", "m",
      "n", "o", "p", "q", "r", "s", "t", "u", "v", "w", "x", "y", "z">>

UpperSeq ==
    <<"A", "B", "C", "D", "E", "F", "G", "H", "I", "J", "K", "L", "M",
      "N", "O", "P", "Q", "R", "S", "T", "U", "V", "W", "X", "Y", "Z">>

DigitSeq == <<"0", "1", "2", "3", "4", "5", "6", "7", "8", "9">>

Range(s) == {s[i] : i \in 1..Len(s)}

IsUppercase(c) == c \in Range(UpperSeq)

ToAsciiLowercase(c) ==
    IF IsUppercase(c)
    THEN LowerSeq[CHOOSE i \in 1..Len(UpperSeq) : UpperSeq[i] = c]
    ELSE c

\* concatenation of a sequence of strings
RECURSIVE Concat(_)
Concat(ss) == IF ss = <<>> THEN <<>> ELSE Head(ss) \o Concat(Tail(ss))

\* decimal rendering of a natural number
RECURSIVE Digits(_)
Digits(n) ==
    IF n < 10 THEN <<DigitSeq[n + 1]>>
    ELSE Digits(n \div 10) \o <<DigitSeq[(n % 10) + 1]>>

(* ------------------------------------------------------------------ *)
(* urlencoding::encode, as called by url()                            *)
(* ------------------------------------------------------------------ *)

\* characters urlencoding::encode leaves alone
Unreserved ==
    Range(LowerSeq) \cup Range(UpperSeq) \cup Range(DigitSeq)
        \cup {"-", "_", ".", "~"}

\* %XX of the ASCII characters outside Unreserved that the model uses
PercentCode(c) ==
    CASE c = " " -> <<"%", "2", "0">>
      [] c = "%" -> <<"%", "2", "5">>
      [] c = "&" -> <<"%", "2", "6">>
      [] c = "+" -> <<"%", "2", "B">>
      [] c = "/" -> <<"%", "2", "F">>
      [] c = ":" -> <<"%", "3", "A">>
      [] c = "=" -> <<"%", "3", "D">>
      [] c = "?" -> <<"%", "3", "F">>

RECURSIVE Encode(_)
Encode(s) ==
    IF s = <<>> THEN <<>>
    ELSE (IF Head(s) \in Unreserved THEN <<Head(s)>> ELSE PercentCode(Head(s)))
             \o Encode(Tail(s))

(* ------------------------------------------------------------------ *)
(* Scope and scope::join                                              *)
(* ------------------------------------------------------------------ *)

Scope == {"Identify", "Guilds", "WebhookIncoming"}

ScopeName(s) ==
    CASE s = "Identify" -> <<"i", "d", "e", "n", "t", "i", "f", "y">>
      [] s = "Guilds" -> <<"g", "u", "i", "l", "d", "s">>
      [] s = "WebhookIncoming" ->
             <<"w", "e", "b", "h", "o", "o", "k", ".",
               "i", "n", "c", "o", "m", "i", "n", "g">>

\* wire names in the order given, one space between two of them
RECURSIVE join(_)
join(scopes) ==
    IF scopes = <<>> THEN <<>>
    ELSE IF Len(scopes) = 1 THEN ScopeName(scopes[1])
    ELSE ScopeName(scopes[1]) \o <<" ">> \o join(Tail(scopes))

(* ------------------------------------------------------------------ *)
(* GrantType, Prompt, TokenType                                       *)
(* ------------------------------------------------------------------ *)

EnumTypes == {"GrantType", "Prompt", "TokenType"}

\* the variants of each enum, by their Rust identifiers
AuthorizationCode == <<"A", "u", "t", "h", "o", "r", "i", "z", "a", "t", "i", "o", "n",
                       "C", "o", "d", "e">>
ClientCredentials == <<"C", "l", "i", "e", "n", "t",
                       "C", "r", "e", "d", "e", "n", "t", "i", "a", "l", "s">>
RefreshToken == <<"R", "e", "f", "r", "e", "s", "h", "T", "o", "k", "e", "n">>
Consent == <<"C", "o", "n", "s", "e", "n", "t">>
PromptNone == <<"N", "o", "n", "e">>
Bearer == <<"B", "e", "a", "r", "e", "r">>

Variants(ty) ==
    CASE ty = "GrantType" -> {AuthorizationCode, ClientCredentials, RefreshToken}
      [] ty = "Prompt" -> {Consent, PromptNone}
      [] ty = "TokenType" -> {Bearer}

\* name() with the separator of refresh_token left out
GrantTypeName_short(v) ==
    CASE v = AuthorizationCode ->
             <<"a", "u", "t", "h", "o", "r", "i", "z", "a", "t", "i", "o", "n", "_",
               "c", "o", "d", "e">>
      [] v = ClientCredentials ->
             <<"c", "l", "i", "e", "n", "t", "_",
               "c", "r", "e", "d", "e", "n", "t", "i", "a", "l", "s">>
      [] v = RefreshToken ->
             <<"r", "e", "f", "r", "e", "s", "h", "t", "o", "k", "e", "n">>

GrantTypeName(v) ==
    CASE v = AuthorizationCode ->
             <<"a", "u", "t", "h", "o", "r", "i", "z", "a", "t", "i", "o", "n", "_",
               "c", "o", "d", "e">>
      [] v = ClientCredentials ->
             <<"c", "l", "i", "e", "n", "t", "_",
               "c", "r", "e", "d", "e", "n", "t", "i", "a", "l", "s">>
      [] v = RefreshToken ->
             <<"r", "e", "f", "r", "e", "s", "h", "_", "t", "o", "k", "e", "n">>

PromptName(v) ==
    CASE v = Consent -> <<"c", "o", "n", "s", "e", "n", "t">>
      [] v = PromptNone -> <<"n", "o", "n", "e">>

TokenTypeName(v) ==
    CASE v = Bearer -> <<"B", "e", "a", "r", "e", "r">>

\* name() of a variant of the enum ty
name(ty, v) ==
    CASE ty = "GrantType" -> GrantTypeName(v)
      [] ty = "Prompt" -> PromptName(v)
      [] ty = "TokenType" -> TokenTypeName(v)

(* ------------------------------------------------------------------ *)
(* The client credentials grant builder and its request               *)
(* ------------------------------------------------------------------ *)

BASE_URL ==
    <<"h", "t", "t", "p", "s", ":", "/", "/",
      "d", "i", "s", "c", "o", "r", "d", ".", "c", "o", "m", "/",
      "a", "p", "i", "/", "v", "6", "/",
      "o", "a", "u", "t", "h", "2", "/", "t", "o", "k", "e", "n">>

ContentTypeHeader ==
    << <<"C", "o", "n", "t", "e", "n", "t", "-", "T", "y", "p", "e">>,
       <<"a", "p", "p", "l", "i", "c", "a", "t", "i", "o", "n", "/",
         "x", "-", "w", "w", "w", "-", "f", "o", "r", "m", "-",
         "u", "r", "l", "e", "n", "c", "o", "d", "e", "d">> >>

\* the clients of the test and of the documentation example
Clients ==
    { [client_id |-> 1, client_secret |-> <<"a">>],
      [client_id |-> 123,
       client_secret |-> <<"a", "b", "c", "d", "e", "f", "0", "1">>] }

NoClient == [client_id |-> 0, client_secret |-> <<>>]

BuilderIds == {1, 2}

NoBuilder == [live |-> FALSE]

NoUrl == [called |-> FALSE]

Unset == <<"unset">>

\* the slices a caller hands to scopes()
ScopeLists == UNION {[1..n -> Scope] : n \in 0..MaxScopes}

VARIABLES
    client,      \* the Client the builders borrow
    builders,    \* builder id -> NoBuilder or the builder's fields
    configured,  \* builder id -> argument of the latest scopes() call, or Unset
    built,       \* builder id -> requests build() returned since that call
    rendered,    \* the latest url() call: the request and the string returned
    wire,        \* the enum token on the wire and where it came from
    decoded,     \* the latest enum deserialization: type, token and result
    payload,     \* the JSON object received from the token endpoint
    response,    \* the result of decoding payload
    reencoded    \* the JSON object serialized from the decoded response

builderVars == <<client, builders, configured, built, rendered>>

enumVars == <<wire, decoded>>

responseVars == <<payload, response, reencoded>>

vars == <<client, builders, configured, built, rendered,
          wire, decoded, payload, response, reencoded>>

\* ClientCredentialsGrantBuilder::new
new == [live |-> TRUE, scopes |-> <<"Identify">>]

\* build with the grant type of the refresh token builder
build_refresh(self) ==
    [ body |-> [ client_id |-> client.client_id,
                 client_secret |-> client.client_secret,
                 grant_type |-> RefreshToken,
                 scope |-> join(self.scopes) ],
      headers |-> <<ContentTypeHeader>>,
      url_base |-> BASE_URL ]

\* ClientCredentialsGrantBuilder::build, the request it returns
build(self) ==
    [ body |-> [ client_id |-> client.client_id,
                 client_secret |-> client.client_secret,
                 grant_type |-> ClientCredentials,
                 scope |-> join(self.scopes) ],
      headers |-> <<ContentTypeHeader>>,
      url_base |-> BASE_URL ]

\* url without the call of urlencoding::encode
url_raw(req) ==
    LET buf0 == req.url_base
        buf1 == buf0 \o <<"?", "g", "r", "a", "n", "t", "_", "t", "y", "p", "e", "=">>
        buf2 == buf1 \o GrantTypeName(req.body.grant_type)
    IN  IF req.body.scope # <<>>
        THEN buf2 \o <<"&", "s", "c", "o", "p", "e", "=">> \o req.body.scope
        ELSE buf2

\* url without the is_empty test
url_always_scope(req) ==
    LET buf0 == req.url_base
        buf1 == buf0 \o <<"?", "g", "r", "a", "n", "t", "_", "t", "y", "p", "e", "=">>
        buf2 == buf1 \o GrantTypeName(req.body.grant_type)
    IN  buf2 \o <<"&", "s", "c", "o", "p", "e", "=">> \o Encode(req.body.scope)

\* ClientCredentialsGrantRequest::url
url(req) ==
    LET buf0 == req.url_base
        buf1 == buf0 \o <<"?", "g", "r", "a", "n", "t", "_", "t", "y", "p", "e", "=">>
        buf2 == buf1 \o GrantTypeName(req.body.grant_type)
    IN  IF req.body.scope # <<>>
        THEN buf2 \o <<"&", "s", "c", "o", "p", "e", "=">> \o Encode(req.body.scope)
        ELSE buf2


\* client.client_credentials_grant(): a fresh builder on the client
New(b) ==
    /\ ~builders[b].live
    /\ builders' = [builders EXCEPT ![b] = new]
    /\ configured' = [configured EXCEPT ![b] = Unset]
    /\ built' = [built EXCEPT ![b] = <<>>]
    /\ UNCHANGED <<client, rendered, enumVars, responseVars>>

\* the derived Clone of a builder: a copy of its fields
Clone(from, to) ==
    /\ builders[from].live
    /\ ~builders[to].live
    /\ builders' = [builders EXCEPT ![to] = builders[from]]
    /\ configured' = [configured EXCEPT ![to] = configured[from]]
    /\ built' = [built EXCEPT ![to] = <<>>]
    /\ UNCHANGED <<client, rendered, enumVars, responseVars>>

\* scopes writing a scope list that every builder shares
Scopes_shared(b, scopes) ==
    /\ builders[b].live
    /\ builders' = [x \in BuilderIds |->
                       IF builders[x].live
                       THEN [builders[x] EXCEPT !.scopes = scopes]
                       ELSE builders[x]]
    /\ configured' = [configured EXCEPT ![b] = scopes]
    /\ built' = [built EXCEPT ![b] = <<>>]
    /\ UNCHANGED <<client, rendered, enumVars, responseVars>>

\* scopes falling back to the default on an empty slice
Scopes_default(b, scopes) ==
    /\ builders[b].live
    /\ builders' = [builders EXCEPT
                       ![b].scopes = IF scopes = <<>> THEN <<"Identify">> ELSE scopes]
    /\ configured' = [configured EXCEPT ![b] = scopes]
    /\ built' = [built EXCEPT ![b] = <<>>]
    /\ UNCHANGED <<client, rendered, enumVars, responseVars>>

\* ClientCredentialsGrantBuilder::scopes
Scopes(b, scopes) ==
    /\ builders[b].live
    /\ builders' = [builders EXCEPT ![b].scopes = scopes]
    /\ configured' = [configured EXCEPT ![b] = scopes]
    /\ built' = [built EXCEPT ![b] = <<>>]
    /\ UNCHANGED <<client, rendered, enumVars, responseVars>>

\* build() taking the scopes out of the builder
Build_reset(b) ==
    /\ builders[b].live
    /\ Len(built[b]) < MaxBuilt
    /\ built' = [built EXCEPT ![b] = Append(@, build(builders[b]))]
    /\ builders' = [builders EXCEPT ![b] = new]
    /\ UNCHANGED <<client, configured, rendered, enumVars, responseVars>>

\* a build() call on builder b
Build(b) ==
    /\ builders[b].live
    /\ Len(built[b]) < MaxBuilt
    /\ built' = [built EXCEPT ![b] = Append(@, build(builders[b]))]
    /\ UNCHANGED <<client, builders, configured, rendered, enumVars, responseVars>>

\* a url() call on the i-th request that build() returned on builder b
Url(b, i) ==
    /\ i \in 1..Len(built[b])
    /\ rendered' = [ called |-> TRUE,
                     config |-> configured[b],
                     request |-> built[b][i],
                     url |-> url(built[b][i]) ]
    /\ UNCHANGED <<client, builders, configured, built, enumVars, responseVars>>

(* ------------------------------------------------------------------ *)
(* Derived Serialize / Deserialize of the enums                       *)
(* ------------------------------------------------------------------ *)

\* serde's rename rule "snake_case" applied to a variant identifier
SnakeCase(v) ==
    Concat([i \in 1..Len(v) |->
               IF i > 1 /\ IsUppercase(v[i])
               THEN <<"_", ToAsciiLowercase(v[i])>>
               ELSE <<ToAsciiLowercase(v[i])>>])

\* the wire name serde derives for a variant: rename_all of its enum
rename(ty, v) ==
    CASE ty = "GrantType" -> SnakeCase(v)
      [] ty = "Prompt" -> SnakeCase(v)
      [] ty = "TokenType" -> v

\* derived Serialize of a unit variant: its wire name as a string
serialize(ty, v) == rename(ty, v)

\* Deserialize matching the wire name whatever the case of the token
deserialize_caseless(ty, token) ==
    LET matching == {v \in Variants(ty) :
                        rename(ty, v) = [i \in 1..Len(token) |-> ToAsciiLowercase(token[i])]}
    IN  IF matching # {}
        THEN [ok |-> TRUE, value |-> CHOOSE v \in matching : TRUE]
        ELSE [ok |-> FALSE, error |-> "unknown variant"]

\* Deserialize with a catch-all variant, as #[serde(other)] gives
deserialize_other(ty, token) ==
    LET matching == {v \in Variants(ty) : rename(ty, v) = token}
    IN  IF matching # {}
        THEN [ok |-> TRUE, value |-> CHOOSE v \in matching : TRUE]
        ELSE [ok |-> TRUE, value |-> <<"O", "t", "h", "e", "r">>]

\* derived Deserialize: the variant with that wire name, or an error
deserialize(ty, token) ==
    LET matching == {v \in Variants(ty) : rename(ty, v) = token}
    IN  IF matching # {}
        THEN [ok |-> TRUE, value |-> CHOOSE v \in matching : TRUE]
        ELSE [ok |-> FALSE, error |-> "unknown variant"]

Lowercase(s) == [i \in 1..Len(s) |-> ToAsciiLowercase(s[i])]

AllVariants == UNION {Variants(ty) : ty \in EnumTypes}

\* tokens the service may send: every spelling of every variant, and strangers
WireTokens ==
    AllVariants
        \cup {SnakeCase(v) : v \in AllVariants}
        \cup {Lowercase(v) : v \in AllVariants}
        \cup { <<>>, <<"M", "a", "c">>, <<"r", "e", "f", "r", "e", "s", "h">> }

NoWire == [from |-> "nowhere", ty |-> "", variant |-> <<>>, token |-> <<>>]

NoDecoded == [called |-> FALSE]

\* name() of a variant goes on the wire
Name(ty, v) ==
    /\ wire' = [from |-> "name", ty |-> ty, variant |-> v, token |-> name(ty, v)]
    /\ UNCHANGED <<decoded, builderVars, responseVars>>

\* a variant is serialized onto the wire
Serialize(ty, v) ==
    /\ wire' = [from |-> "serialize", ty |-> ty, variant |-> v,
                token |-> serialize(ty, v)]
    /\ UNCHANGED <<decoded, builderVars, responseVars>>

\* the service sends a token
ReceiveToken(token) ==
    /\ wire' = [from |-> "service", ty |-> "", variant |-> <<>>, token |-> token]
    /\ UNCHANGED <<decoded, builderVars, responseVars>>

\* the token on the wire is deserialized as the enum ty
Deserialize(ty) ==
    /\ wire.from # "nowhere"
    /\ decoded' = [ called |-> TRUE, ty |-> ty, wire |-> wire,
                    result |-> deserialize(ty, wire.token) ]
    /\ UNCHANGED <<wire, builderVars, responseVars>>

(* ------------------------------------------------------------------ *)
(* ClientCredentialsGrantResponse and its derived (de)serialization   *)
(* ------------------------------------------------------------------ *)

\* the fields of ClientCredentialsGrantResponse in declaration order
ResponseFields == <<"access_token", "expires_in", "token_type", "scope">>

\* a JSON value: its type, with the text of a string or the value of a number
Absent == [t |-> "absent", s |-> <<>>, n |-> 0]
JNull == [t |-> "null", s |-> <<>>, n |-> 0]
JStr(s) == [t |-> "string", s |-> s, n |-> 0]
JNum(n) == [t |-> "number", s |-> <<>>, n |-> n]

\* the values a JSON object may carry under each field
FieldValues(f) ==
    CASE f = "access_token" ->
             {Absent, JNull, JNum(7), JStr(<<"t", "o", "k">>)}
      [] f = "expires_in" ->
             {Absent, JStr(<<"6", "0">>), JNum(-1), JNum(0), JNum(604800)}
      [] f = "token_type" ->
             {Absent, JNum(1), JStr(Bearer), JStr(Lowercase(Bearer)),
              JStr(<<"M", "a", "c">>)}
      [] f = "scope" ->
             {Absent, JNull, JStr(<<>>), JStr(ScopeName("Identify"))}

Payloads ==
    [ access_token : FieldValues("access_token"),
      expires_in : FieldValues("expires_in"),
      token_type : FieldValues("token_type"),
      scope : FieldValues("scope") ]

NoPayload == [received |-> FALSE]

NoResponse == [called |-> FALSE]

NoJson == [serialized |-> FALSE]

\* FieldError with expires_in declared i64
FieldError_signed(f, j) ==
    IF j = Absent THEN "missing field"
    ELSE CASE f = "access_token" ->
                  IF j.t = "string" THEN "none" ELSE "invalid type"
           [] f = "expires_in" ->
                  IF j.t # "number" THEN "invalid type" ELSE "none"
           [] f = "token_type" ->
                  IF j.t # "string" THEN "invalid type"
                  ELSE IF deserialize("TokenType", j.s).ok THEN "none"
                  ELSE "unknown variant"
           [] f = "scope" ->
                  IF j.t = "string" THEN "none" ELSE "invalid type"

\* the error deserializing JSON value j into field f, "none" if there is none
FieldError(f, j) ==
    IF j = Absent THEN "missing field"
    ELSE CASE f = "access_token" ->
                  IF j.t = "string" THEN "none" ELSE "invalid type"
           [] f = "expires_in" ->
                  IF j.t # "number" THEN "invalid type"
                  ELSE IF j.n < 0 THEN "invalid value" ELSE "none"
           [] f = "token_type" ->
                  IF j.t # "string" THEN "invalid type"
                  ELSE IF deserialize("TokenType", j.s).ok THEN "none"
                  ELSE "unknown variant"
           [] f = "scope" ->
                  IF j.t = "string" THEN "none" ELSE "invalid type"

\* derived Deserialize of ClientCredentialsGrantResponse from a JSON object
\* whose keys come in declaration order: a present field that does not
\* deserialize fails first, a missing field is reported after the last key
from_json(p) ==
    LET bad == {i \in 1..Len(ResponseFields) :
                    /\ p[ResponseFields[i]] # Absent
                    /\ FieldError(ResponseFields[i], p[ResponseFields[i]]) # "none"}
        missing == {i \in 1..Len(ResponseFields) : p[ResponseFields[i]] = Absent}
        first(S) == CHOOSE i \in S : \A j \in S : i <= j
    IN  IF bad # {}
        THEN [ called |-> TRUE, ok |-> FALSE,
               error |-> FieldError(ResponseFields[first(bad)],
                                    p[ResponseFields[first(bad)]]),
               field |-> ResponseFields[first(bad)] ]
        ELSE IF missing # {}
        THEN [ called |-> TRUE, ok |-> FALSE,
               error |-> "missing field",
               field |-> ResponseFields[first(missing)] ]
        ELSE [ called |-> TRUE, ok |-> TRUE,
               value |-> [ access_token |-> p.access_token.s,
                           expires_in |-> p.expires_in.n,
                           token_type |-> deserialize("TokenType", p.token_type.s).value,
                           scope |-> p.scope.s ] ]

\* derived Serialize of ClientCredentialsGrantResponse
to_json(r) ==
    [ access_token |-> JStr(r.access_token),
      expires_in |-> JNum(r.expires_in),
      token_type |-> JStr(serialize("TokenType", r.token_type)),
      scope |-> JStr(r.scope) ]

\* the received object is decoded
DecodeResponse ==
    /\ response = NoResponse
    /\ response' = from_json(payload)
    /\ UNCHANGED <<payload, reencoded, builderVars, enumVars>>

\* the decoded response is encoded again
EncodeResponse ==
    /\ response.called
    /\ response.ok
    /\ reencoded = NoJson
    /\ reencoded' = to_json(response.value)
    /\ UNCHANGED <<payload, response, builderVars, enumVars>>

(* ------------------------------------------------------------------ *)
(* Specifications                                                     *)
(* ------------------------------------------------------------------ *)

BuilderIdle ==
    /\ builders = [b \in BuilderIds |-> NoBuilder]
    /\ configured = [b \in BuilderIds |-> Unset]
    /\ built = [b \in BuilderIds |-> <<>>]
    /\ rendered = NoUrl

EnumIdle == wire = NoWire /\ decoded = NoDecoded

ResponseIdle == response = NoResponse /\ reencoded = NoJson

\* a client and no builder made yet
InitBuilder ==
    /\ client \in Clients
    /\ BuilderIdle
    /\ EnumIdle
    /\ payload = NoPayload /\ ResponseIdle

\* nothing on the wire yet
InitEnum ==
    /\ client = NoClient
    /\ BuilderIdle
    /\ EnumIdle
    /\ payload = NoPayload /\ ResponseIdle

\* a JSON object has arrived from the token endpoint
InitResponse ==
    /\ client = NoClient
    /\ BuilderIdle
    /\ EnumIdle
    /\ payload \in Payloads /\ ResponseIdle

\* two builders on one client, configured and built in any interleaving
NextBuilders ==
    \/ \E b \in BuilderIds : New(b)
    \/ \E from \in BuilderIds, to \in BuilderIds : Clone(from, to)
    \/ \E b \in BuilderIds, scopes \in ScopeLists : Scopes(b, scopes)
    \/ \E b \in BuilderIds : Build(b)

\* one builder, its requests and the URLs they render
NextRequest ==
    \/ New(1)
    \/ \E scopes \in ScopeLists : Scopes(1, scopes)
    \/ Build(1)
    \/ \E i \in 1..MaxBuilt : Url(1, i)

NextEnum ==
    \/ \E ty \in EnumTypes : \E v \in Variants(ty) : Name(ty, v)
    \/ \E ty \in EnumTypes : \E v \in Variants(ty) : Serialize(ty, v)
    \/ \E token \in WireTokens : ReceiveToken(token)
    \/ \E ty \in EnumTypes : Deserialize(ty)

NextResponse ==
    \/ DecodeResponse
    \/ EncodeResponse

SpecBuilders == InitBuilder /\ [][NextBuilders]_vars

SpecRequest == InitBuilder /\ [][NextRequest]_vars

SpecEnum == InitEnum /\ [][NextEnum]_vars

SpecResponse == InitResponse /\ [][NextResponse]_vars

(* ------------------------------------------------------------------ *)
(* Properties                                                         *)
(* ------------------------------------------------------------------ *)

\* the scope list a builder builds from: the default until scopes() is called
Effective(config) == IF config = Unset THEN <<"Identify">> ELSE config

\* the wire names of a scope list with "%20" between two of them
RECURSIVE ScopeParam(_)
ScopeParam(scopes) ==
    IF scopes = <<>> THEN <<>>
    ELSE IF Len(scopes) = 1 THEN ScopeName(scopes[1])
    ELSE ScopeName(scopes[1]) \o <<"%", "2", "0">> \o ScopeParam(Tail(scopes))

\* C1: url() of a request built from a non-empty scope list is url_base, then
\* "?grant_type=client_credentials", then "&scope=" and the wire names of the
\* scopes in the caller's order with "%20" between them; it holds no "+" and
\* no space, and [Guilds, Identify] gives the URL of the test.
C1_UrlOfScopes ==
    (rendered.called /\ rendered.config # Unset /\ rendered.config # <<>>) =>
        /\ rendered.url =
             <<"h", "t", "t", "p", "s", ":", "/", "/", "d", "i", "s", "c", "o", "r",
               "d", ".", "c", "o", "m", "/", "a", "p", "i", "/", "v", "6", "/", "o",
               "a", "u", "t", "h", "2", "/", "t", "o", "k", "e", "n">>
             \o <<"?", "g", "r", "a", "n", "t", "_", "t", "y", "p", "e", "=", "c", "l",
                  "i", "e", "n", "t", "_", "c", "r", "e", "d", "e", "n", "t", "i", "a",
                  "l", "s">>
             \o <<"&", "s", "c", "o", "p", "e", "=">>
             \o ScopeParam(rendered.config)
        /\ "+" \notin Range(rendered.url)
        /\ " " \notin Range(rendered.url)
        /\ rendered.config = <<"Guilds", "Identify">> =>
             rendered.url =
               <<"h", "t", "t", "p", "s", ":", "/", "/", "d", "i", "s", "c", "o", "r",
                 "d", ".", "c", "o", "m", "/", "a", "p", "i", "/", "v", "6", "/", "o",
                 "a", "u", "t", "h", "2", "/", "t", "o", "k", "e", "n", "?", "g", "r",
                 "a", "n", "t", "_", "t", "y", "p", "e", "=", "c", "l", "i", "e", "n",
                 "t", "_", "c", "r", "e", "d", "e", "n", "t", "i", "a", "l", "s", "&",
                 "s", "c", "o", "p", "e", "=", "g", "u", "i", "l", "d", "s", "%", "2",
                 "0", "i", "d", "e", "n", "t", "i", "f", "y">>

C1_Witness ==
    /\ rendered.called
    /\ rendered.config = <<"Guilds", "Identify">>

\* C2: build() leaves the builder as it was: every request built since the
\* latest scopes() call has the join of that call's list as body.scope, or
\* "identify" (and the URL ending in "&scope=identify") when scopes() was never
\* called, and build() calls with no scopes() call between them return equal
\* requests.
C2_BuildKeepsBuilder ==
    \A b \in BuilderIds : \A i \in 1..Len(built[b]) :
        /\ configured[b] # Unset => built[b][i].body.scope = join(configured[b])
        /\ configured[b] = Unset =>
             /\ built[b][i].body.scope = <<"i", "d", "e", "n", "t", "i", "f", "y">>
             /\ url(built[b][i]) =
                  <<"h", "t", "t", "p", "s", ":", "/", "/", "d", "i", "s", "c", "o", "r",
                    "d", ".", "c", "o", "m", "/", "a", "p", "i", "/", "v", "6", "/", "o",
                    "a", "u", "t", "h", "2", "/", "t", "o", "k", "e", "n", "?", "g", "r",
                    "a", "n", "t", "_", "t", "y", "p", "e", "=", "c", "l", "i", "e", "n",
                    "t", "_", "c", "r", "e", "d", "e", "n", "t", "i", "a", "l", "s", "&",
                    "s", "c", "o", "p", "e", "=", "i", "d", "e", "n", "t", "i", "f", "y">>
        /\ \A j \in 1..Len(built[b]) : built[b][j] = built[b][i]
        /\ builders[b].scopes = Effective(configured[b])

C2_Witness ==
    \E b \in BuilderIds :
        /\ configured[b] = <<"Guilds", "Identify">>
        /\ Len(built[b]) = 2

\* the query string of a sequence of <<key, value>> pairs: key=value with the
\* value percent-encoded, "&" between two pairs, a pair with an empty value
\* left out
RECURSIVE Query(_)
Query(pairs) ==
    IF pairs = <<>> THEN <<>>
    ELSE LET rest == Query(Tail(pairs))
             this == Head(pairs)[1] \o <<"=">> \o Encode(Head(pairs)[2])
         IN  IF Head(pairs)[2] = <<>> THEN rest
             ELSE IF rest = <<>> THEN this
             ELSE this \o <<"&">> \o rest

C4_NameRoundTrip ==
    /\ wire.from = "name" => wire.token = serialize(wire.ty, wire.variant)
    /\ wire.from = "serialize" => wire.token = name(wire.ty, wire.variant)
    /\ wire.from \in {"name", "serialize"} =>
         \A v \in Variants(wire.ty) :
             name(wire.ty, v) = wire.token => v = wire.variant
    /\ (decoded.called /\ decoded.wire.from = "name" /\ decoded.wire.ty = decoded.ty) =>
         /\ decoded.result.ok
         /\ decoded.result.value = decoded.wire.variant
    /\ (wire.from = "name" /\ wire.ty = "TokenType") => wire.token = <<"B", "e", "a", "r", "e", "r">>
    /\ (wire.from = "name" /\ wire.variant = RefreshToken) =>
         wire.token = <<"r", "e", "f", "r", "e", "s", "h", "_", "t", "o", "k", "e", "n">>

C4_Witness ==
    /\ decoded.called
    /\ decoded.ty = "GrantType"
    /\ decoded.wire.from = "name"
    /\ decoded.wire.variant = RefreshToken
    /\ decoded.result.ok

C6_ClosedEnumsReject ==
    (decoded.called /\ decoded.ty \in {"GrantType", "Prompt"}
        /\ decoded.wire.token \notin {name(decoded.ty, v) : v \in Variants(decoded.ty)}) =>
        /\ ~decoded.result.ok
        /\ decoded.result.error = "unknown variant"
        /\ DOMAIN decoded.result = {"ok", "error"}

C6_Witness ==
    /\ decoded.called
    /\ decoded.ty = "Prompt"
    /\ decoded.wire.token = <<"C", "o", "n", "s", "e", "n", "t">>
    /\ ~decoded.result.ok

\* a payload with the four fields present and of the declared types
WellFormed(p) ==
    /\ p.access_token.t = "string"
    /\ p.expires_in.t = "number" /\ p.expires_in.n >= 0
    /\ p.token_type = JStr(<<"B", "e", "a", "r", "e", "r">>)
    /\ p.scope.t = "string"

\* C7: decoding a ClientCredentialsGrantResponse succeeds exactly when
\* access_token, expires_in (not negative), token_type and scope are present
\* and well typed, and the decoded response encodes to the JSON it came from;
\* any other payload gives an error that names a field and carries no struct.
C7_ResponseDecode ==
    /\ response.called =>
         /\ response.ok <=> WellFormed(payload)
         /\ response.ok => DOMAIN response = {"called", "ok", "value"}
         /\ ~response.ok =>
              /\ DOMAIN response = {"called", "ok", "error", "field"}
              /\ response.error \in
                   {"missing field", "invalid type", "invalid value", "unknown variant"}
              /\ response.field \in Range(ResponseFields)
              /\ payload.access_token = Absent =>
                   (response.error = "missing field") <=> (response.field = "access_token")
    /\ reencoded # NoJson => reencoded = payload

C7_Witness ==
    /\ reencoded # NoJson
    /\ payload.expires_in = JNum(604800)
    /\ payload.token_type = JStr(Bearer)

\* C8: every request the builder builds, whatever its scopes and however often
\* it is rebuilt, has grant_type ClientCredentials, the one header
\* ("Content-Type", "application/x-www-form-urlencoded") and url_base
\* "https://discord.com/api/v6/oauth2/token".
C8_FixedRequestFields ==
    \A b \in BuilderIds : \A i \in 1..Len(built[b]) :
        /\ built[b][i].body.grant_type = ClientCredentials
        /\ name("GrantType", built[b][i].body.grant_type) =
             <<"c", "l", "i", "e", "n", "t", "_", "c", "r", "e", "d", "e", "n", "t", "i", "a", "l", "s">>
        /\ built[b][i].headers =
             << << <<"C", "o", "n", "t", "e", "n", "t", "-", "T", "y", "p", "e">>,
                   <<"a", "p", "p", "l", "i", "c", "a", "t", "i", "o", "n", "/", "x", "-",
                     "w", "w", "w", "-", "f", "o", "r", "m", "-", "u", "r", "l", "e", "n",
                     "c", "o", "d", "e", "d">> >> >>
        /\ built[b][i].url_base =
             <<"h", "t", "t", "p", "s", ":", "/", "/", "d", "i", "s", "c", "o", "r",
               "d", ".", "c", "o", "m", "/", "a", "p", "i", "/", "v", "6", "/", "o",
               "a", "u", "t", "h", "2", "/", "t", "o", "k", "e", "n">>

C8_Witness ==
    \E b \in BuilderIds :
        /\ Len(built[b]) = 2
        /\ configured[b] = <<"WebhookIncoming">>

\* C9: builders share nothing: a step leaves every builder it makes no call
\* on as it was, never changes the client, and every request built carries
\* the client's id and secret and the join of the scopes configured on its
\* own builder.
C9_BuildersIndependent ==
    [][ /\ client' = client
        /\ \A b \in BuilderIds :
             (builders[b].live /\ configured'[b] = configured[b] /\ built'[b] = built[b])
                 => builders'[b] = builders[b]
        /\ \A b \in BuilderIds : \A i \in 1..Len(built'[b]) :
             /\ built'[b][i].body.client_id = client.client_id
             /\ built'[b][i].body.client_secret = client.client_secret
             /\ built'[b][i].body.scope = join(Effective(configured'[b])) ]_vars

C9_Witness ==
    /\ builders[1].live /\ builders[2].live
    /\ configured[1] = <<"Guilds">>
    /\ configured[2] = <<"WebhookIncoming", "Identify">>
    /\ built[1] # <<>> /\ built[2] # <<>>

\* C10: after scopes(&[]) the default is not put back: build() gives an empty
\* body.scope and url() is url_base and "?grant_type=client_credentials" with
\* no scope parameter.
C10_EmptyScopes ==
    (rendered.called /\ rendered.config = <<>>) =>
        /\ rendered.request.body.scope = <<>>
        /\ rendered.url =
             <<"h", "t", "t", "p", "s", ":", "/", "/", "d", "i", "s", "c", "o", "r",
               "d", ".", "c", "o", "m", "/", "a", "p", "i", "/", "v", "6", "/", "o",
               "a", "u", "t", "h", "2", "/", "t", "o", "k", "e", "n", "?", "g", "r",
               "a", "n", "t", "_", "t", "y", "p", "e", "=", "c", "l", "i", "e", "n",
               "t", "_", "c", "r", "e", "d", "e", "n", "t", "i", "a", "l", "s">>

C10_Witness ==
    /\ rendered.called
    /\ rendered.config = <<>>

====
